---- MODULE Spec2Model ----
(***************************************************************************)
(* Operational orchestration of the data pipeline: the cleanup run         *)
(* (scripts/cleanup_aws.py), the end-to-end test run (test_pipeline.py)    *)
(* and the code deployment run (scripts/deploy_lambda.py).  One process    *)
(* per invocation: Init picks the entry point, and only that entry point's *)
(* actions are enabled afterwards.  Remote calls take their outcome from   *)
(* the remote state where it decides it and nondeterministically (an API   *)
(* error) otherwise.                                                       *)
(***************************************************************************)
EXTENDS Integers, Sequences, FiniteSets, TLC

(***************************************************************************)
(* Names                                                                   *)
(***************************************************************************)
DataBucket == "data-pipeline-bucket-jsonplaceholder"
ResultsBucket == "data-pipeline-athena-results-jsonplaceholder"
FunctionName == "data-pipeline-data-extractor"
CrawlerName == "data-pipeline-crawler"
DatabaseName == "data_pipeline_db"
WorkgroupName == "data-pipeline-workgroup"
StackName == "DataPipelineStack"

Buckets == {DataBucket, ResultsBucket}
\* the buckets the stack creates with versioned=True
Versioned == {DataBucket}
Resources == Buckets \cup {FunctionName, CrawlerName, DatabaseName, WorkgroupName}

\* the test `'data-pipeline' in name` of verify_cleanup
ContainsDataPipeline(name) ==
    name \in {DataBucket, ResultsBucket, FunctionName, CrawlerName, WorkgroupName}

\* self.config as __init__ leaves it
DefaultConfig ==
    [stack_name |-> StackName,
     workgroup_name |-> WorkgroupName,
     database_name |-> DatabaseName,
     crawler_name |-> CrawlerName,
     lambda_function_name |-> FunctionName]

\* the stack's outputs that the scripts read, with the values the stack gives
StackOutputs ==
    [DataBucketName |-> DataBucket,
     AthenaResultsBucketName |-> ResultsBucket,
     LambdaFunctionName |-> FunctionName]

\* statuses of the stack record; "NONE": there is no such stack
LiveStatuses == {"CREATE_COMPLETE", "ROLLBACK_COMPLETE"}
DeleteStatuses == {"DELETE_IN_PROGRESS", "DELETE_FAILED", "DELETE_COMPLETE"}
StackStatuses == {"NONE"} \cup LiveStatuses \cup DeleteStatuses

\* the test `'DELETE' in stack_status` of get_stack_resources
HasDelete(status) == status \in DeleteStatuses

\* the outputs a stack record may carry: all of them, or none (a stack
\* whose creation was rolled back, or no stack)
OutputsOf(status) ==
    IF status \in {"NONE", "ROLLBACK_COMPLETE"} THEN {{}}
    ELSE {DOMAIN StackOutputs}

\* API errors one verify_cleanup call may meet
MaxVerifyErrors == 1

Unset == "unset"
True == "True"
False == "False"
Bool(b) == IF b THEN True ELSE False

VARIABLES
    entry,                \* the entry point of this process
    pc,                   \* position in the entry point's main sequence
    \* ---- remote state
    stack,                \* status of the stack record
    outputs,              \* keys of the outputs the stack record carries
    exists,               \* names of the live resources
    nonempty,             \* buckets that hold objects
    versions,             \* buckets that hold noncurrent versions or delete markers
    \* ---- locals shared by the entry points
    config,
    athena_success,
    s3_success,
    exit_code,
    \* ---- cleanup run
    calls,                \* stages entered and mutating remote calls, in order
    stack_exists,
    cdk_success,
    verification_results,
    errors,               \* stages in which a remote call failed (not "not found")
    \* ---- test run
    lambda_success,
    crawler_success,
    tables_success,
    crawler_seen,         \* crawler states fetched, in order
    start_calls,          \* start_crawler calls issued
    crawler_wait,         \* seconds main slept after the crawler stage
    passed_tests,
    qi,                   \* index of the query of the current loop iteration
    poll_result,          \* per query: how its polling ended
    all_queries_passed,
    query_executions,
    submitted,            \* queries handed to start_query_execution, in order
    \* ---- the polling loop in progress (query qi, or the function)
    attempt,              \* loop variable: iterations completed
    fetches,              \* status fetches issued
    sleeps,               \* time.sleep(2) calls made
    status,               \* status last fetched
    \* ---- deploy run
    zip_path,
    function_name,
    update_calls,         \* update_function_code calls issued
    invoke_calls,         \* invoke calls issued by test_updated_function
    describe_calls,       \* describe_stacks calls issued
    max_attempts,
    wait_result,          \* how wait_for_function_ready ended
    \* ---- the listing loop of empty_s3_buckets for one bucket
    pages,                \* the pages of the listing: the keys of each
    page,                 \* pages the loop has been through
    batches,              \* the Objects of the delete_objects calls, in order
    delete_count,
    reported              \* the count of the "Emptied bucket" line, -1: none

remoteVars == <<stack, outputs, exists, nonempty, versions>>
cleanupVars == <<calls, stack_exists, cdk_success, verification_results, errors>>
testVars ==
    <<lambda_success, crawler_success, tables_success, crawler_seen,
      start_calls, crawler_wait, passed_tests>>
queryVars == <<qi, poll_result, all_queries_passed, query_executions, submitted>>
pollVars == <<attempt, fetches, sleeps, status>>
deployVars ==
    <<zip_path, function_name, update_calls, invoke_calls, max_attempts, wait_result>>
pageVars == <<pages, page, batches, delete_count, reported>>
vars ==
    <<entry, pc, remoteVars, config, athena_success, s3_success, exit_code,
      cleanupVars, testVars, queryVars, pollVars, deployVars, describe_calls,
      pageVars>>

Stage(name) == <<name, "stage">>
Call(op, arg) == <<op, arg>>

(***************************************************************************)
(* Remote calls                                                            *)
(***************************************************************************)
\* describe_stacks(StackName): the record, "missing" (the call raises
\* "does not exist") or another error
DescribeOutcomes ==
    (IF stack = "NONE" THEN {"missing"} ELSE {"found"}) \cup {"error"}

\* a delete call on one resource: done, not found, or another error; a
\* bucket that holds objects, object versions or delete markers (ne) cannot
\* be deleted
DeleteOutcomes(name, ex, ne) ==
    IF name \notin ex THEN {"absent", "error"}
    ELSE IF name \in ne THEN {"error"}
    ELSE {"ok", "error"}

AfterDelete(name, ex, o) == IF o = "ok" THEN ex \ {name} ELSE ex

\* the except clause of a stage was entered for an error of a remote call
Failed(stage, b) == IF b THEN errors \cup {stage} ELSE errors

(***************************************************************************)
(* cleanup_aws.py                                                          *)
(***************************************************************************)
notCleanup == <<testVars, queryVars, pollVars, deployVars, pageVars>>

\* run_cleanup with the fallback entered after a successful cdk destroy too
RunCleanupNext_FallbackAlways(at, se, cs) ==
    CASE at = "get_stack_resources" -> "clean_athena_workgroup"
      [] at = "clean_athena_workgroup" -> "empty_s3_buckets"
      [] at = "empty_s3_buckets" ->
            IF se = True THEN "run_cdk_destroy" ELSE "manual_resource_cleanup"
      [] at = "run_cdk_destroy" -> "manual_resource_cleanup"
      [] at = "manual_resource_cleanup" ->
            IF se = True THEN "delete_cloudformation_stack" ELSE "verify_cleanup"
      [] at = "delete_cloudformation_stack" -> "verify_cleanup"
      [] OTHER -> "done"

\* run_cleanup with the buckets emptied after the destroy stages
RunCleanupNext_DestroyFirst(at, se, cs) ==
    CASE at = "get_stack_resources" -> "clean_athena_workgroup"
      [] at = "clean_athena_workgroup" ->
            IF se = True THEN "run_cdk_destroy" ELSE "manual_resource_cleanup"
      [] at = "run_cdk_destroy" ->
            IF cs = True THEN "empty_s3_buckets" ELSE "manual_resource_cleanup"
      [] at = "manual_resource_cleanup" ->
            IF se = True THEN "delete_cloudformation_stack" ELSE "empty_s3_buckets"
      [] at = "delete_cloudformation_stack" -> "empty_s3_buckets"
      [] at = "empty_s3_buckets" -> "verify_cleanup"
      [] OTHER -> "done"

\* run_cleanup that goes through the fallback again after the forced deletion
RunCleanupNext_RetryFallback(at, se, cs) ==
    CASE at = "get_stack_resources" -> "clean_athena_workgroup"
      [] at = "clean_athena_workgroup" -> "empty_s3_buckets"
      [] at = "empty_s3_buckets" ->
            IF se = True THEN "run_cdk_destroy" ELSE "manual_resource_cleanup"
      [] at = "run_cdk_destroy" ->
            IF cs = True THEN "verify_cleanup" ELSE "manual_resource_cleanup"
      [] at = "manual_resource_cleanup" ->
            IF se = True THEN "delete_cloudformation_stack" ELSE "verify_cleanup"
      [] at = "delete_cloudformation_stack" -> "manual_resource_cleanup"
      [] OTHER -> "done"

\* run_cleanup ending when the workgroup stage is over
RunCleanupNext_StopAfterWorkgroup(at, se, cs) ==
    CASE at = "get_stack_resources" -> "clean_athena_workgroup"
      [] OTHER -> "done"

\* run_cleanup that verifies only after a successful cdk destroy
RunCleanupNext_SkipVerify(at, se, cs) ==
    CASE at = "get_stack_resources" -> "clean_athena_workgroup"
      [] at = "clean_athena_workgroup" -> "empty_s3_buckets"
      [] at = "empty_s3_buckets" ->
            IF se = True THEN "run_cdk_destroy" ELSE "manual_resource_cleanup"
      [] at = "run_cdk_destroy" ->
            IF cs = True THEN "verify_cleanup" ELSE "manual_resource_cleanup"
      [] at = "manual_resource_cleanup" ->
            IF se = True THEN "delete_cloudformation_stack" ELSE "done"
      [] OTHER -> "done"

\* run_cleanup that trusts a successful cdk destroy and does not verify
RunCleanupNext_NoVerifyAfterDestroy(at, se, cs) ==
    CASE at = "get_stack_resources" -> "clean_athena_workgroup"
      [] at = "clean_athena_workgroup" -> "empty_s3_buckets"
      [] at = "empty_s3_buckets" ->
            IF se = True THEN "run_cdk_destroy" ELSE "manual_resource_cleanup"
      [] at = "run_cdk_destroy" ->
            IF cs = True THEN "done" ELSE "manual_resource_cleanup"
      [] at = "manual_resource_cleanup" ->
            IF se = True THEN "delete_cloudformation_stack" ELSE "verify_cleanup"
      [] at = "delete_cloudformation_stack" -> "verify_cleanup"
      [] OTHER -> "done"

\* the stage run_cleanup runs after stage `at`, given stack_exists (se) and
\* cdk_success (cs)
RunCleanupNext(at, se, cs) ==
    CASE at = "get_stack_resources" -> "clean_athena_workgroup"
      [] at = "clean_athena_workgroup" -> "empty_s3_buckets"
      [] at = "empty_s3_buckets" ->
            IF se = True THEN "run_cdk_destroy" ELSE "manual_resource_cleanup"
      [] at = "run_cdk_destroy" ->
            IF cs = True THEN "verify_cleanup" ELSE "manual_resource_cleanup"
      [] at = "manual_resource_cleanup" ->
            IF se = True THEN "delete_cloudformation_stack" ELSE "verify_cleanup"
      [] at = "delete_cloudformation_stack" -> "verify_cleanup"
      [] OTHER -> "done"

\* an outputs loop that takes the workgroup's name from the account too
MergeOutputs_RenamesWorkgroup(cfg, outs) ==
    [k \in DOMAIN cfg \cup {"data_bucket", "results_bucket"} |->
        CASE k = "data_bucket" -> StackOutputs.DataBucketName
          [] k = "results_bucket" -> StackOutputs.AthenaResultsBucketName
          [] k = "workgroup_name" -> "primary"
          [] OTHER -> cfg[k]]

\* the outputs loop of get_stack_resources
MergeOutputs(cfg, outs) ==
    LET dom ==
            DOMAIN cfg
            \cup (IF "DataBucketName" \in outs THEN {"data_bucket"} ELSE {})
            \cup (IF "AthenaResultsBucketName" \in outs THEN {"results_bucket"} ELSE {})
    IN  [k \in dom |->
            IF k = "data_bucket" /\ "DataBucketName" \in outs
                THEN StackOutputs.DataBucketName
            ELSE IF k = "results_bucket" /\ "AthenaResultsBucketName" \in outs
                THEN StackOutputs.AthenaResultsBucketName
            ELSE IF k = "lambda_function_name" /\ "LambdaFunctionName" \in outs
                THEN StackOutputs.LambdaFunctionName
            ELSE cfg[k]]

GetStackResources ==
    /\ entry = "cleanup" /\ pc = "get_stack_resources"
    /\ \E d \in DescribeOutcomes :
        IF d = "found" /\ ~HasDelete(stack)
        THEN /\ config' = MergeOutputs(config, outputs)
             /\ stack_exists' = True
             /\ errors' = errors
        ELSE /\ config' = config
             /\ stack_exists' = False
             /\ errors' = Failed("get_stack_resources", d = "error")
    /\ calls' = Append(calls, Stage("get_stack_resources"))
    /\ describe_calls' = describe_calls + 1
    /\ pc' = RunCleanupNext(pc, stack_exists', cdk_success)
    /\ UNCHANGED <<entry, remoteVars, athena_success, s3_success, exit_code,
                   cdk_success, verification_results, notCleanup>>

CleanAthenaWorkgroup ==
    /\ entry = "cleanup" /\ pc = "clean_athena_workgroup"
    /\ \E listing \in {"ok", "error"} :
        IF listing = "error"
        THEN /\ athena_success' = False
             /\ calls' = Append(calls, Stage("clean_athena_workgroup"))
             /\ exists' = exists
             /\ errors' = Failed("clean_athena_workgroup", TRUE)
        ELSE IF config.workgroup_name \notin exists
        THEN /\ athena_success' = True
             /\ calls' = Append(calls, Stage("clean_athena_workgroup"))
             /\ exists' = exists
             /\ errors' = errors
        ELSE \E o \in {"ok", "error"} :
             /\ athena_success' = Bool(o = "ok")
             /\ calls' = calls \o <<Stage("clean_athena_workgroup"),
                                    Call("delete_work_group", config.workgroup_name)>>
             /\ exists' = AfterDelete(config.workgroup_name, exists, o)
             /\ errors' = Failed("clean_athena_workgroup", o = "error")
    /\ pc' = RunCleanupNext(pc, stack_exists, cdk_success)
    /\ UNCHANGED <<entry, stack, outputs, nonempty, versions, config, s3_success,
                   exit_code,
                   stack_exists, cdk_success, verification_results,
                   describe_calls, notCleanup>>

\* buckets_to_empty: the config's buckets and the default names, without
\* duplicates
BucketsToEmpty(cfg) ==
    {cfg[k] : k \in {"data_bucket", "results_bucket"} \cap DOMAIN cfg}
    \cup {DataBucket, ResultsBucket}

\* one bucket of the loop of empty_s3_buckets: the delete_objects call it
\* issues when head_bucket succeeds and the listing has contents
EmptyCalls(b, o) ==
    IF b \in exists /\ b \in nonempty /\ o \in {"ok", "delete_error"}
    THEN <<Call("delete_objects", b)>>
    ELSE <<>>

\* the delete_objects calls of the whole loop, visiting the buckets in `order`
RECURSIVE EmptyCallsOf(_, _)
EmptyCallsOf(order, out) ==
    IF Len(order) = 0 THEN <<>>
    ELSE EmptyCalls(Head(order), out[Head(order)]) \o EmptyCallsOf(Tail(order), out)

\* the buckets whose listed objects the loop deleted: delete_objects names
\* keys and no version ids, which in a versioned bucket leaves the versions
\* under delete markers
Emptied(todo, out) ==
    {b \in todo : b \in exists /\ b \in nonempty /\ out[b] = "ok"}

\* the orders in which the loop may visit list(set(...))
Orders(todo) ==
    {s \in [1..Cardinality(todo) -> todo] :
        \A i, j \in DOMAIN s : i # j => s[i] # s[j]}

EmptyS3Buckets ==
    /\ entry = "cleanup" /\ pc = "empty_s3_buckets"
    /\ LET todo == BucketsToEmpty(config) IN
       \E out \in [todo -> {"ok", "head_error", "delete_error"}] :
       \E order \in Orders(todo) :
        /\ \A b \in todo : (b \notin exists) => out[b] = "head_error"
        /\ \A b \in todo : (b \in exists /\ b \notin nonempty) => out[b] # "delete_error"
        /\ calls' = calls \o <<Stage("empty_s3_buckets")>> \o EmptyCallsOf(order, out)
        /\ nonempty' = nonempty \ Emptied(todo, out)
        /\ versions' = versions \cup (Emptied(todo, out) \cap Versioned)
        /\ errors' = Failed("empty_s3_buckets",
                            \E b \in todo \cap exists : out[b] # "ok")
    /\ s3_success' = True
    /\ pc' = RunCleanupNext(pc, stack_exists, cdk_success)
    /\ UNCHANGED <<entry, stack, outputs, exists, config, athena_success, exit_code,
                   stack_exists, cdk_success, verification_results,
                   describe_calls, notCleanup>>

\* cdk destroy --force: return code 0, another return code (with nothing or
\* with part of the stack deleted), the 300 s timeout, or the command
\* cannot be run
RunCdkDestroy ==
    /\ entry = "cleanup" /\ pc = "run_cdk_destroy"
    /\ \E o \in {"ok", "failed", "failed_partial", "timeout", "error"} :
        /\ cdk_success' = Bool(o = "ok")
        /\ stack' = CASE o = "ok" -> "NONE"
                      [] o = "failed_partial" -> "DELETE_FAILED"
                      [] o = "timeout" -> "DELETE_IN_PROGRESS"
                      [] OTHER -> stack
        /\ exists' = CASE o = "ok" -> {}
                       [] o = "failed_partial" -> exists \cap Buckets
                       [] OTHER -> exists
        /\ nonempty' = IF o = "ok" THEN {} ELSE nonempty
        /\ versions' = IF o = "ok" THEN {} ELSE versions
        /\ outputs' = IF o = "ok" THEN {} ELSE outputs
        /\ errors' = Failed("run_cdk_destroy", o # "ok")
        /\ pc' = RunCleanupNext(pc, stack_exists, Bool(o = "ok"))
    /\ calls' = calls \o <<Stage("run_cdk_destroy"), Call("cdk_destroy", StackName)>>
    /\ UNCHANGED <<entry, config, athena_success, s3_success, exit_code,
                   stack_exists, verification_results, describe_calls, notCleanup>>

\* the bucket loop of manual_resource_cleanup: only the keys the config has
BucketKeys(cfg) ==
    SelectSeq(<<"data_bucket", "results_bucket">>, LAMBDA k : k \in DOMAIN cfg)

ManualResourceCleanup ==
    /\ entry = "cleanup" /\ pc = "manual_resource_cleanup"
    /\ LET keys == BucketKeys(config)
           targets == <<config.lambda_function_name, config.crawler_name,
                        config.database_name>>
                      \o [i \in 1..Len(keys) |-> config[keys[i]]]
           ops == <<"delete_function", "delete_crawler", "delete_database">>
                  \o [i \in 1..Len(keys) |-> "delete_bucket"]
       IN \E out \in [1..Len(targets) -> {"ok", "absent", "error"}] :
           /\ \A i \in 1..Len(targets) :
                 out[i] \in DeleteOutcomes(targets[i], exists, nonempty \cup versions)
           /\ exists' = exists \ {targets[i] : i \in {j \in 1..Len(targets) : out[j] = "ok"}}
           /\ calls' = calls \o <<Stage("manual_resource_cleanup")>>
                             \o [i \in 1..Len(targets) |-> Call(ops[i], targets[i])]
           /\ errors' = Failed("manual_resource_cleanup",
                               \E i \in 1..Len(targets) : out[i] = "error")
    /\ pc' = RunCleanupNext(pc, stack_exists, cdk_success)
    /\ UNCHANGED <<entry, stack, outputs, nonempty, versions, config, athena_success,
                   s3_success, exit_code, stack_exists, cdk_success,
                   verification_results, describe_calls, notCleanup>>

\* describe, delete_stack, then the stack_delete_complete waiter
DeleteCloudformationStack ==
    /\ entry = "cleanup" /\ pc = "delete_cloudformation_stack"
    /\ \E d \in DescribeOutcomes :
        IF d # "found"
        THEN /\ calls' = Append(calls, Stage("delete_cloudformation_stack"))
             /\ errors' = Failed("delete_cloudformation_stack", d = "error")
             /\ UNCHANGED remoteVars
        ELSE \E o \in {"ok", "delete_error", "waiter_error"} :
             /\ calls' = calls \o <<Stage("delete_cloudformation_stack"),
                                    Call("delete_stack", config.stack_name)>>
             /\ stack' = CASE o = "ok" -> "NONE"
                           [] o = "waiter_error" -> "DELETE_FAILED"
                           [] OTHER -> stack
             /\ exists' = IF o = "ok" THEN {} ELSE exists
             /\ nonempty' = IF o = "ok" THEN {} ELSE nonempty
             /\ versions' = IF o = "ok" THEN {} ELSE versions
             /\ outputs' = IF o = "ok" THEN {} ELSE outputs
             /\ errors' = Failed("delete_cloudformation_stack", o # "ok")
    /\ describe_calls' = describe_calls + 1
    /\ pc' = RunCleanupNext(pc, stack_exists, cdk_success)
    /\ UNCHANGED <<entry, config, athena_success, s3_success, exit_code,
                   stack_exists, cdk_success, verification_results, notCleanup>>

\* the five categories of verify_cleanup, in order; errs: the categories
\* whose query raises
VerifyCategories == {"stack", "s3", "lambda", "glue", "athena"}

\* a stack check that counts a missing stack as a failure
VerifyStack_AbsentFails(errs) ==
    IF "stack" \in errs THEN TRUE
    ELSE IF stack = "NONE" THEN FALSE
    ELSE stack = "DELETE_COMPLETE"

VerifyStack(errs) ==
    IF "stack" \in errs \/ stack = "NONE" THEN TRUE ELSE stack = "DELETE_COMPLETE"

\* a listing check that fails when the account lists nothing at all
VerifyListed_EmptyListingFails(cat, names, errs) ==
    IF cat \in errs \/ exists = {} THEN FALSE ELSE names \cap exists = {}

VerifyListed(cat, names, errs) ==
    IF cat \in errs THEN FALSE ELSE names \cap exists = {}

VerificationResults(errs) ==
    <<VerifyStack(errs),
      VerifyListed("s3", {b \in Buckets : ContainsDataPipeline(b)}, errs),
      VerifyListed("lambda", {f \in {FunctionName} : ContainsDataPipeline(f)}, errs),
      VerifyListed("glue", {config.database_name}, errs),
      VerifyListed("athena", {config.workgroup_name}, errs)>>

\* any() in the place of all()
All_Any(results) == \E i \in DOMAIN results : results[i]

All(results) == \A i \in DOMAIN results : results[i]

\* a verification that deletes the buckets it finds
VerifyCleanup_Destructive ==
    /\ entry = "cleanup" /\ pc = "verify_cleanup"
    /\ \E errs \in {e \in SUBSET VerifyCategories : Cardinality(e) <= MaxVerifyErrors} :
        /\ verification_results' = VerificationResults(errs)
        /\ exit_code' = IF All(VerificationResults(errs)) THEN 0 ELSE 1
        /\ errors' = Failed("verify_cleanup", errs # {})
    /\ calls' = Append(calls, Stage("verify_cleanup"))
    /\ describe_calls' = describe_calls + 1
    /\ exists' = exists \ Buckets
    /\ pc' = RunCleanupNext(pc, stack_exists, cdk_success)
    /\ UNCHANGED <<entry, stack, outputs, nonempty, versions, config, athena_success,
                   s3_success, stack_exists, cdk_success, notCleanup>>

VerifyCleanup ==
    /\ entry = "cleanup" /\ pc = "verify_cleanup"
    /\ \E errs \in {e \in SUBSET VerifyCategories : Cardinality(e) <= MaxVerifyErrors} :
        /\ verification_results' = VerificationResults(errs)
        /\ exit_code' = IF All(VerificationResults(errs)) THEN 0 ELSE 1
        /\ errors' = Failed("verify_cleanup", errs # {})
    /\ calls' = Append(calls, Stage("verify_cleanup"))
    /\ describe_calls' = describe_calls + 1
    /\ pc' = RunCleanupNext(pc, stack_exists, cdk_success)
    /\ UNCHANGED <<entry, remoteVars, config, athena_success, s3_success,
                   stack_exists, cdk_success, notCleanup>>

CleanupNext ==
    \/ GetStackResources
    \/ CleanAthenaWorkgroup
    \/ EmptyS3Buckets
    \/ RunCdkDestroy
    \/ ManualResourceCleanup
    \/ DeleteCloudformationStack
    \/ VerifyCleanup

(***************************************************************************)
(* The polling loops                                                       *)
(***************************************************************************)
\* max_attempts of the query loop of test_athena_query
MaxAttempts == 30
\* the default of wait_for_function_ready's max_attempts parameter
DefaultMaxAttempts == 30
\* largest max_attempts of a direct call of wait_for_function_ready
MaxBudget == 3

\* states get_query_execution documents, and one it does not
QueryStatuses == {"QUEUED", "RUNNING", "SUCCEEDED", "FAILED", "CANCELLED"}
Unrecognized == "UNRECOGNIZED"
\* states of a function's configuration
FunctionStates == {"Pending", "Active", "Inactive", "Failed"}

\* the query loop without its SUCCEEDED branch
QueryBranch_SuccessRetries(s) ==
    IF s = "FAILED" THEN "failure"
    ELSE IF s = "CANCELLED" THEN "failure"
    ELSE "retry"

\* the query loop without its CANCELLED branch
QueryBranch_CancelledRetries(s) ==
    IF s = "SUCCEEDED" THEN "success"
    ELSE IF s = "FAILED" THEN "failure"
    ELSE "retry"

\* the if-chain of the query loop on the fetched status
QueryBranch(s) ==
    IF s = "SUCCEEDED" THEN "success"
    ELSE IF s = "FAILED" THEN "failure"
    ELSE IF s = "CANCELLED" THEN "failure"
    ELSE "retry"

\* the if-chain of wait_for_function_ready on the fetched state
FunctionBranch(s) ==
    IF s = "Active" THEN "success"
    ELSE IF s = "Pending" THEN "retry"
    ELSE "failure"

\* a loop that runs once more than its budget
BudgetLeft_OffByOne(a, max) == a <= max

\* `for attempt in range(max_attempts)`: another iteration follows
BudgetLeft(a, max) == a < max

\* a loop that sleeps at the end of every iteration
SleepOn_EveryIteration(branch) == 1

\* time.sleep(2) calls of one iteration: one, in the branch that retries
SleepOn(branch) == IF branch = "retry" THEN 1 ELSE 0

ResetPoll ==
    /\ attempt' = 0
    /\ fetches' = 0
    /\ sleeps' = 0
    /\ status' = "none"

(***************************************************************************)
(* test_pipeline.py                                                        *)
(***************************************************************************)
notTests == <<cleanupVars, deployVars, pageVars>>

Queries == <<"count_rows", "users", "users_by_city">>
NumQueries == Len(Queries)

\* seconds main sleeps after a successful crawler stage
CrawlerWaitSeconds == 60

CrawlerStates == {"READY", "RUNNING", "STOPPING"}

NoConfig == [k \in {} |-> ""]

\* the config get_stack_outputs builds from the record's outputs
TestConfig(outs) ==
    LET base == [glue_database_name |-> DatabaseName,
                 glue_crawler_name |-> CrawlerName,
                 athena_workgroup |-> WorkgroupName]
        dom ==
            DOMAIN base
            \cup (IF "LambdaFunctionName" \in outs THEN {"lambda_function_name"} ELSE {})
            \cup (IF "DataBucketName" \in outs THEN {"data_bucket_name"} ELSE {})
            \cup (IF "AthenaResultsBucketName" \in outs
                    THEN {"athena_results_bucket_name"} ELSE {})
    IN  [k \in dom |->
            CASE k = "lambda_function_name" -> StackOutputs.LambdaFunctionName
              [] k = "data_bucket_name" -> StackOutputs.DataBucketName
              [] k = "athena_results_bucket_name" -> StackOutputs.AthenaResultsBucketName
              [] OTHER -> base[k]]

RequiredKeys ==
    {"lambda_function_name", "data_bucket_name", "athena_results_bucket_name"}

\* get_stack_outputs and main's tests of its result; a record without
\* outputs makes response['Stacks'][0]['Outputs'] raise
GetStackOutputs ==
    /\ entry = "tests" /\ pc = "get_stack_outputs"
    /\ describe_calls' = describe_calls + 1
    /\ \E d \in DescribeOutcomes :
        IF d = "found" /\ outputs # {}
        THEN /\ config' = TestConfig(outputs)
             /\ IF RequiredKeys \subseteq DOMAIN TestConfig(outputs)
                THEN pc' = "test_lambda_function" /\ exit_code' = exit_code
                ELSE pc' = "done" /\ exit_code' = 0
        ELSE /\ config' = config
             /\ pc' = "done"
             /\ exit_code' = 0
    /\ UNCHANGED <<entry, remoteVars, athena_success, s3_success, testVars,
                   queryVars, pollVars, notTests>>

\* test_lambda_function; a successful invoke uploads the extracted data
TestLambdaFunction ==
    /\ entry = "tests" /\ pc = "test_lambda_function"
    /\ \E o \in {"ok", "bad_status", "error"} :
        /\ lambda_success' = Bool(o = "ok")
        /\ nonempty' = IF o = "ok" THEN nonempty \cup {DataBucket} ELSE nonempty
    /\ pc' = "check_s3_data"
    /\ UNCHANGED <<entry, stack, outputs, exists, versions, config, athena_success,
                   s3_success, exit_code, crawler_success, tables_success,
                   crawler_seen, start_calls, crawler_wait, passed_tests,
                   queryVars, pollVars, describe_calls, notTests>>

CheckS3Data ==
    /\ entry = "tests" /\ pc = "check_s3_data"
    /\ \E o \in {"ok", "error"} :
        s3_success' = Bool(o = "ok" /\ config.data_bucket_name \in nonempty)
    /\ pc' = "test_glue_crawler"
    /\ UNCHANGED <<entry, remoteVars, config, athena_success, exit_code, testVars,
                   queryVars, pollVars, describe_calls, notTests>>

\* a branch that starts a crawler that is running, too
CrawlerBranch_StartsRunning(s) ==
    IF s \in {"READY", "RUNNING"} THEN "start" ELSE "unexpected"

\* the branch of test_glue_crawler on the fetched state
CrawlerBranch(s) ==
    IF s = "READY" THEN "start"
    ELSE IF s = "RUNNING" THEN "running"
    ELSE "unexpected"

\* test_glue_crawler, then main's fixed sleep when it succeeded
TestGlueCrawler ==
    /\ entry = "tests" /\ pc = "test_glue_crawler"
    /\ \E s \in CrawlerStates \cup {"error"} :
        IF s = "error"
        THEN /\ crawler_seen' = crawler_seen
             /\ start_calls' = start_calls
             /\ crawler_success' = False
             /\ crawler_wait' = 0
        ELSE /\ crawler_seen' = Append(crawler_seen, s)
             /\ IF CrawlerBranch(s) = "start"
                THEN \E o \in {"ok", "error"} :
                        /\ start_calls' = start_calls + 1
                        /\ crawler_success' = Bool(o = "ok")
                        /\ crawler_wait' = IF o = "ok" THEN CrawlerWaitSeconds ELSE 0
                ELSE /\ start_calls' = start_calls
                     /\ crawler_success' = Bool(CrawlerBranch(s) = "running")
                     /\ crawler_wait' =
                            IF CrawlerBranch(s) = "running" THEN CrawlerWaitSeconds ELSE 0
    /\ pc' = "check_glue_tables"
    /\ UNCHANGED <<entry, remoteVars, config, athena_success, s3_success, exit_code,
                   lambda_success, tables_success, passed_tests,
                   queryVars, pollVars, describe_calls, notTests>>

\* a main that goes on to the queries whatever check_glue_tables returned
CheckGlueTables_NoGate ==
    /\ entry = "tests" /\ pc = "check_glue_tables"
    /\ \E o \in {"tables", "empty", "error"} :
        /\ tables_success' = Bool(o = "tables")
        /\ athena_success' = athena_success
        /\ pc' = "get_table_name"
    /\ UNCHANGED <<entry, remoteVars, config, s3_success, exit_code,
                   lambda_success, crawler_success, crawler_seen, start_calls,
                   crawler_wait, passed_tests, queryVars, pollVars,
                   describe_calls, notTests>>

\* check_glue_tables and main's gate on its result
CheckGlueTables ==
    /\ entry = "tests" /\ pc = "check_glue_tables"
    /\ \E o \in {"tables", "empty", "error"} :
        /\ tables_success' = Bool(o = "tables")
        /\ athena_success' = IF o = "tables" THEN athena_success ELSE False
        /\ pc' = IF o = "tables" THEN "get_table_name" ELSE "summary"
    /\ UNCHANGED <<entry, remoteVars, config, s3_success, exit_code,
                   lambda_success, crawler_success, crawler_seen, start_calls,
                   crawler_wait, passed_tests, queryVars, pollVars,
                   describe_calls, notTests>>

\* main's second get_tables for the table name, and the entry of
\* test_athena_query
GetTableName ==
    /\ entry = "tests" /\ pc = "get_table_name"
    /\ \E o \in {"ok", "error"} :
        IF o = "ok"
        THEN /\ pc' = "submit_query"
             /\ qi' = 1
             /\ all_queries_passed' = TRUE
             /\ query_executions' = <<>>
             /\ UNCHANGED <<athena_success, poll_result, submitted>>
        ELSE /\ pc' = "summary"
             /\ athena_success' = False
             /\ UNCHANGED queryVars
    /\ UNCHANGED <<entry, remoteVars, config, s3_success, exit_code, testVars,
                   pollVars, describe_calls, notTests>>

\* a submission that puts the newest record first
SubmitQuery_Prepend ==
    /\ entry = "tests" /\ pc = "submit_query"
    /\ submitted' = Append(submitted, Queries[qi])
    /\ \E o \in {"ok", "error"} :
        IF o = "ok"
        THEN /\ query_executions' =
                    <<[execution_id |-> Len(query_executions) + 1,
                       query_info |-> Queries[qi]]>> \o query_executions
             /\ pc' = "poll_query"
             /\ UNCHANGED all_queries_passed
        ELSE /\ all_queries_passed' = FALSE
             /\ pc' = "end_query"
             /\ UNCHANGED query_executions
    /\ UNCHANGED <<entry, remoteVars, config, athena_success, s3_success, exit_code,
                   testVars, qi, poll_result, pollVars, describe_calls, notTests>>

\* start_query_execution of query qi and the record kept for it
SubmitQuery ==
    /\ entry = "tests" /\ pc = "submit_query"
    /\ submitted' = Append(submitted, Queries[qi])
    /\ \E o \in {"ok", "error"} :
        IF o = "ok"
        THEN /\ query_executions' =
                    Append(query_executions,
                           [execution_id |-> Len(query_executions) + 1,
                            query_info |-> Queries[qi]])
             /\ pc' = "poll_query"
             /\ UNCHANGED all_queries_passed
        ELSE /\ all_queries_passed' = FALSE
             /\ pc' = "end_query"
             /\ UNCHANGED query_executions
    /\ UNCHANGED <<entry, remoteVars, config, athena_success, s3_success, exit_code,
                   testVars, qi, poll_result, pollVars, describe_calls, notTests>>

\* one iteration of the polling loop of query qi
PollQuery ==
    /\ entry = "tests" /\ pc = "poll_query"
    /\ BudgetLeft(attempt, MaxAttempts)
    /\ fetches' = fetches + 1
    /\ \E s \in QueryStatuses \cup {Unrecognized, "error"} :
        IF s = "error"
        THEN /\ status' = status
             /\ poll_result' = [poll_result EXCEPT ![qi] = "Error"]
             /\ all_queries_passed' = FALSE
             /\ pc' = "end_query"
             /\ UNCHANGED <<attempt, sleeps>>
        ELSE /\ status' = s
             /\ sleeps' = sleeps + SleepOn(QueryBranch(s))
             /\ CASE QueryBranch(s) = "success" ->
                      /\ poll_result' = [poll_result EXCEPT ![qi] = "Succeeded"]
                      /\ \E r \in {"ok", "error"} :
                            all_queries_passed' =
                                IF r = "error" THEN FALSE ELSE all_queries_passed
                      /\ pc' = "end_query"
                      /\ UNCHANGED attempt
                  [] QueryBranch(s) = "failure" ->
                      /\ poll_result' = [poll_result EXCEPT ![qi] = "FailedTerminal"]
                      /\ all_queries_passed' = FALSE
                      /\ pc' = "end_query"
                      /\ UNCHANGED attempt
                  [] OTHER ->
                      /\ attempt' = attempt + 1
                      /\ UNCHANGED <<pc, poll_result, all_queries_passed>>
    /\ UNCHANGED <<entry, remoteVars, config, athena_success, s3_success, exit_code,
                   testVars, qi, query_executions, submitted, describe_calls,
                   notTests>>

\* the else of the for loop: the budget is used up
QueryTimeout ==
    /\ entry = "tests" /\ pc = "poll_query"
    /\ ~BudgetLeft(attempt, MaxAttempts)
    /\ poll_result' = [poll_result EXCEPT ![qi] = "TimedOut"]
    /\ all_queries_passed' = FALSE
    /\ pc' = "end_query"
    /\ UNCHANGED <<entry, remoteVars, config, athena_success, s3_success, exit_code,
                   testVars, qi, query_executions, submitted, pollVars,
                   describe_calls, notTests>>

\* a loop over the queries that returns at the first query that failed
EndQuery_StopOnFailure ==
    /\ entry = "tests" /\ pc = "end_query"
    /\ IF qi < NumQueries /\ all_queries_passed
       THEN /\ qi' = qi + 1
            /\ pc' = "submit_query"
            /\ ResetPoll
            /\ UNCHANGED athena_success
       ELSE /\ athena_success' = Bool(all_queries_passed)
            /\ pc' = IF all_queries_passed THEN "show_query_result_files"
                     ELSE "summary"
            /\ UNCHANGED <<qi, pollVars>>
    /\ UNCHANGED <<entry, remoteVars, config, s3_success, exit_code, testVars,
                   poll_result, all_queries_passed, query_executions, submitted,
                   describe_calls, notTests>>

\* the next iteration of the loop over the queries, or test_athena_query's
\* return and main's use of it
EndQuery ==
    /\ entry = "tests" /\ pc = "end_query"
    /\ IF qi < NumQueries
       THEN /\ qi' = qi + 1
            /\ pc' = "submit_query"
            /\ ResetPoll
            /\ UNCHANGED athena_success
       ELSE /\ athena_success' = Bool(all_queries_passed)
            /\ pc' = IF all_queries_passed THEN "show_query_result_files"
                     ELSE "summary"
            /\ UNCHANGED <<qi, pollVars>>
    /\ UNCHANGED <<entry, remoteVars, config, s3_success, exit_code, testVars,
                   poll_result, all_queries_passed, query_executions, submitted,
                   describe_calls, notTests>>

\* show_query_result_files: a listing, nothing is changed
ShowQueryResultFiles ==
    /\ entry = "tests" /\ pc = "show_query_result_files"
    /\ pc' = "summary"
    /\ UNCHANGED <<entry, remoteVars, config, athena_success, s3_success, exit_code,
                   testVars, queryVars, pollVars, describe_calls, notTests>>

Passed(results) == Cardinality({i \in DOMAIN results : results[i] = True})

\* the summary of main; main returns nothing, so the process exits with 0
Summary ==
    /\ entry = "tests" /\ pc = "summary"
    /\ passed_tests' = Passed(<<lambda_success, s3_success, crawler_success,
                                tables_success, athena_success>>)
    /\ exit_code' = 0
    /\ pc' = "done"
    /\ UNCHANGED <<entry, remoteVars, config, athena_success, s3_success,
                   lambda_success, crawler_success, tables_success, crawler_seen,
                   start_calls, crawler_wait, queryVars, pollVars,
                   describe_calls, notTests>>

TestsNext ==
    \/ GetStackOutputs
    \/ TestLambdaFunction
    \/ CheckS3Data
    \/ TestGlueCrawler
    \/ CheckGlueTables
    \/ GetTableName
    \/ SubmitQuery
    \/ PollQuery
    \/ QueryTimeout
    \/ EndQuery
    \/ ShowQueryResultFiles
    \/ Summary

(***************************************************************************)
(* deploy_lambda.py                                                        *)
(***************************************************************************)
notDeploy == <<cleanupVars, testVars, queryVars, pageVars>>

ZipPath == "lambda_deployment.zip"

\* main's return: the finally clause removes the package
Return(code) ==
    /\ exit_code' = code
    /\ zip_path' = Unset
    /\ pc' = "done"

CreateLambdaPackage ==
    /\ entry = "deploy" /\ pc = "create_lambda_package"
    /\ \E o \in {"ok", "none"} :
        IF o = "ok"
        THEN /\ zip_path' = ZipPath
             /\ pc' = "get_lambda_function_name"
             /\ UNCHANGED exit_code
        ELSE Return(1)
    /\ UNCHANGED <<entry, remoteVars, config, athena_success, s3_success,
                   function_name, update_calls, invoke_calls, max_attempts,
                   wait_result, pollVars, describe_calls, notDeploy>>

GetLambdaFunctionName ==
    /\ entry = "deploy" /\ pc = "get_lambda_function_name"
    /\ describe_calls' = describe_calls + 1
    /\ \E d \in DescribeOutcomes :
        IF d = "found" /\ "LambdaFunctionName" \in outputs
        THEN /\ function_name' = StackOutputs.LambdaFunctionName
             /\ pc' = "update_lambda_code"
             /\ UNCHANGED <<exit_code, zip_path>>
        ELSE /\ Return(1)
             /\ UNCHANGED function_name
    /\ UNCHANGED <<entry, remoteVars, config, athena_success, s3_success,
                   update_calls, invoke_calls, max_attempts, wait_result,
                   pollVars, notDeploy>>

\* update_lambda_code, and the call of wait_for_function_ready with the
\* default budget that follows it
UpdateLambdaCode ==
    /\ entry = "deploy" /\ pc = "update_lambda_code"
    /\ update_calls' = update_calls + 1
    /\ \E o \in {"ok", "error"} :
        IF o = "ok"
        THEN /\ pc' = "wait_for_function_ready"
             /\ max_attempts' = DefaultMaxAttempts
             /\ UNCHANGED <<exit_code, zip_path>>
        ELSE /\ Return(1)
             /\ UNCHANGED max_attempts
    /\ UNCHANGED <<entry, remoteVars, config, athena_success, s3_success,
                   function_name, invoke_calls, wait_result, pollVars,
                   describe_calls, notDeploy>>

\* a main that goes on to the smoke test whatever the wait returned
WaitReturns_Advisory(result) ==
    /\ wait_result' = result
    /\ IF entry = "deploy"
       THEN pc' = "test_updated_function" /\ UNCHANGED <<exit_code, zip_path>>
       ELSE pc' = "done" /\ UNCHANGED <<exit_code, zip_path>>

\* what follows the return of wait_for_function_ready
WaitReturns(result) ==
    /\ wait_result' = result
    /\ IF entry = "deploy"
       THEN IF result = "Succeeded"
            THEN pc' = "test_updated_function" /\ UNCHANGED <<exit_code, zip_path>>
            ELSE Return(1)
       ELSE pc' = "done" /\ UNCHANGED <<exit_code, zip_path>>

\* a loop that notes the error of a fetch and fetches again
WaitForFunctionReady_RetryOnError ==
    /\ entry \in {"deploy", "wait"} /\ pc = "wait_for_function_ready"
    /\ BudgetLeft(attempt, max_attempts)
    /\ fetches' = fetches + 1
    /\ \E s \in FunctionStates \cup {"error"} :
        IF s = "error"
        THEN /\ status' = status
             /\ wait_result' = "Error"
             /\ attempt' = attempt + 1
             /\ UNCHANGED <<pc, exit_code, zip_path, sleeps>>
        ELSE /\ status' = s
             /\ sleeps' = sleeps + SleepOn(FunctionBranch(s))
             /\ CASE FunctionBranch(s) = "success" ->
                      WaitReturns("Succeeded") /\ UNCHANGED attempt
                  [] FunctionBranch(s) = "failure" ->
                      WaitReturns("FailedTerminal") /\ UNCHANGED attempt
                  [] OTHER ->
                      /\ attempt' = attempt + 1
                      /\ UNCHANGED <<pc, wait_result, exit_code, zip_path>>
    /\ UNCHANGED <<entry, remoteVars, config, athena_success, s3_success,
                   function_name, update_calls, invoke_calls, max_attempts,
                   describe_calls, notDeploy>>

\* one iteration of the loop of wait_for_function_ready
WaitForFunctionReady ==
    /\ entry \in {"deploy", "wait"} /\ pc = "wait_for_function_ready"
    /\ BudgetLeft(attempt, max_attempts)
    /\ fetches' = fetches + 1
    /\ \E s \in FunctionStates \cup {"error"} :
        IF s = "error"
        THEN /\ status' = status
             /\ WaitReturns("Error")
             /\ UNCHANGED <<attempt, sleeps>>
        ELSE /\ status' = s
             /\ sleeps' = sleeps + SleepOn(FunctionBranch(s))
             /\ CASE FunctionBranch(s) = "success" ->
                      WaitReturns("Succeeded") /\ UNCHANGED attempt
                  [] FunctionBranch(s) = "failure" ->
                      WaitReturns("FailedTerminal") /\ UNCHANGED attempt
                  [] OTHER ->
                      /\ attempt' = attempt + 1
                      /\ UNCHANGED <<pc, wait_result, exit_code, zip_path>>
    /\ UNCHANGED <<entry, remoteVars, config, athena_success, s3_success,
                   function_name, update_calls, invoke_calls, max_attempts,
                   describe_calls, notDeploy>>

\* the loop ran max_attempts times
WaitTimeout ==
    /\ entry \in {"deploy", "wait"} /\ pc = "wait_for_function_ready"
    /\ ~BudgetLeft(attempt, max_attempts)
    /\ WaitReturns("TimedOut")
    /\ UNCHANGED <<entry, remoteVars, config, athena_success, s3_success,
                   function_name, update_calls, invoke_calls, max_attempts,
                   pollVars, describe_calls, notDeploy>>

\* test_updated_function reads the record again for the data bucket name
TestUpdatedFunction ==
    /\ entry = "deploy" /\ pc = "test_updated_function"
    /\ describe_calls' = describe_calls + 1
    /\ \E d \in DescribeOutcomes :
        IF d = "found" /\ "DataBucketName" \in outputs
        THEN \E o \in {"ok", "bad_status", "error"} :
                /\ invoke_calls' = invoke_calls + 1
                /\ Return(IF o = "ok" THEN 0 ELSE 1)
                /\ nonempty' = IF o = "ok" THEN nonempty \cup {DataBucket} ELSE nonempty
        ELSE /\ Return(1)
             /\ UNCHANGED <<nonempty, invoke_calls>>
    /\ UNCHANGED <<entry, stack, outputs, exists, versions, config, athena_success,
                   s3_success, function_name, update_calls, max_attempts, wait_result,
                   pollVars, notDeploy>>

DeployNext ==
    \/ CreateLambdaPackage
    \/ GetLambdaFunctionName
    \/ UpdateLambdaCode
    \/ WaitForFunctionReady
    \/ WaitTimeout
    \/ TestUpdatedFunction

(***************************************************************************)
(* KeyboardInterrupt                                                       *)
(***************************************************************************)
\* exit status of a python process ended by an uncaught KeyboardInterrupt
SigintStatus == 130

\* an interrupt that the polling loops do not let through
Interrupt_NotMidPoll ==
    /\ entry \in {"cleanup", "tests", "deploy"}
    /\ pc \notin {"done", "interrupted", "poll_query", "wait_for_function_ready"}
    /\ pc' = "interrupted"
    /\ exit_code' = IF entry = "tests" THEN SigintStatus ELSE 1
    /\ zip_path' = Unset
    /\ UNCHANGED <<entry, remoteVars, config, athena_success, s3_success,
                   cleanupVars, testVars, queryVars, pollVars, function_name,
                   update_calls, invoke_calls, max_attempts, wait_result,
                   describe_calls, pageVars>>

\* the user's interrupt: no handler of a stage catches it (they catch
\* Exception); the mains of cleanup and deploy return 1, deploy's finally
\* removes the package, and the test run ends with the traceback
Interrupt ==
    /\ entry \in {"cleanup", "tests", "deploy"}
    /\ pc \notin {"done", "interrupted"}
    /\ pc' = "interrupted"
    /\ exit_code' = IF entry = "tests" THEN SigintStatus ELSE 1
    /\ zip_path' = Unset
    /\ UNCHANGED <<entry, remoteVars, config, athena_success, s3_success,
                   cleanupVars, testVars, queryVars, pollVars, function_name,
                   update_calls, invoke_calls, max_attempts, wait_result,
                   describe_calls, pageVars>>

(***************************************************************************)
(* cleanup_aws.py: the listing loop of empty_s3_buckets for one bucket     *)
(***************************************************************************)
\* pages of one listing
MaxPages == 3
\* keys of the bucket
MaxKeys == 3
Keys == 1..MaxKeys

\* the listings the paginator may return: each key on one page at most; a
\* page without keys has no 'Contents'
PageLists ==
    UNION {{p \in [1..n -> SUBSET Keys] :
                \A i, j \in 1..n : i # j => p[i] \cap p[j] = {}} : n \in 0..MaxPages}

notEmpty ==
    <<remoteVars, config, athena_success, s3_success, exit_code, cleanupVars,
      testVars, queryVars, pollVars, deployVars, describe_calls>>

\* a count of the delete_objects calls
Counted_Calls(objects) == 1

\* what one page adds to delete_count: len(objects)
Counted(objects) == Cardinality(objects)

\* one page of the loop: delete_objects with the page's keys; the call may
\* raise, and so may the listing, which ends the loop for this bucket
EmptyPage ==
    /\ entry = "empty" /\ pc = "paginate"
    /\ page < Len(pages)
    /\ LET objects == pages[page + 1] IN
       \E o \in {"ok", "list_error", "delete_error"} :
          CASE o = "list_error" ->
                  /\ pc' = "done"
                  /\ UNCHANGED <<page, batches, delete_count>>
            [] o = "ok" ->
                  /\ page' = page + 1
                  /\ batches' = IF objects # {} THEN Append(batches, objects)
                                ELSE batches
                  /\ delete_count' = IF objects # {}
                                     THEN delete_count + Counted(objects)
                                     ELSE delete_count
                  /\ pc' = pc
            [] OTHER ->
                  /\ objects # {}
                  /\ batches' = Append(batches, objects)
                  /\ pc' = "done"
                  /\ UNCHANGED <<page, delete_count>>
    /\ UNCHANGED <<entry, pages, reported, notEmpty>>

\* the loop is over: the "Emptied bucket" line
EmptyReport ==
    /\ entry = "empty" /\ pc = "paginate"
    /\ page = Len(pages)
    /\ reported' = delete_count
    /\ pc' = "done"
    /\ UNCHANGED <<entry, pages, page, batches, delete_count, notEmpty>>

EmptyNext == EmptyPage \/ EmptyReport

(***************************************************************************)
(* Specification                                                           *)
(***************************************************************************)
\* what a cleanup run may find: any of the two buckets, with the other
\* resources all there or all gone (a run's own failures leave the other
\* mixtures)
InitialResources ==
    {bs \cup rest : bs \in SUBSET Buckets, rest \in {{}, Resources \ Buckets}}

AllOutputs == DOMAIN StackOutputs

InitLocals ==
    /\ athena_success = Unset
    /\ s3_success = Unset
    /\ exit_code = -1
    /\ calls = <<>>
    /\ stack_exists = Unset
    /\ cdk_success = Unset
    /\ verification_results = <<>>
    /\ lambda_success = Unset
    /\ crawler_success = Unset
    /\ tables_success = Unset
    /\ crawler_seen = <<>>
    /\ start_calls = 0
    /\ crawler_wait = 0
    /\ passed_tests = 0
    /\ qi = 0
    /\ poll_result = [i \in 1..NumQueries |-> "none"]
    /\ all_queries_passed = TRUE
    /\ query_executions = <<>>
    /\ submitted = <<>>
    /\ attempt = 0
    /\ fetches = 0
    /\ sleeps = 0
    /\ status = "none"
    /\ zip_path = Unset
    /\ update_calls = 0
    /\ invoke_calls = 0
    /\ errors = {}
    /\ describe_calls = 0
    /\ wait_result = "none"
    /\ page = 0
    /\ batches = <<>>
    /\ delete_count = 0
    /\ reported = -1

InitCleanup ==
    /\ entry = "cleanup"
    /\ pc = "get_stack_resources"
    /\ stack \in StackStatuses \ {"DELETE_COMPLETE"}
    /\ outputs \in OutputsOf(stack)
    /\ exists \in InitialResources
    /\ nonempty \in SUBSET (exists \cap Buckets)
    /\ versions \in SUBSET (exists \cap Versioned)
    /\ config = DefaultConfig
    /\ function_name = Unset
    /\ max_attempts = DefaultMaxAttempts
    /\ pages = <<>>
    /\ InitLocals

\* the test and deploy runs start from a deployed stack, a stack record
\* that lacks outputs, or no stack; no step of theirs reads or removes
\* object versions
InitDeployed ==
    /\ stack \in {"NONE", "CREATE_COMPLETE", "ROLLBACK_COMPLETE"}
    /\ outputs \in OutputsOf(stack)
                   \cup (IF stack = "CREATE_COMPLETE"
                         THEN {AllOutputs \ {"LambdaFunctionName"},
                               AllOutputs \ {"DataBucketName"}}
                         ELSE {})
    /\ exists = IF stack = "CREATE_COMPLETE" THEN Resources ELSE {}
    /\ nonempty \in SUBSET (exists \cap {DataBucket})
    /\ versions = {}
    /\ config = NoConfig

InitTests ==
    /\ entry = "tests"
    /\ pc = "get_stack_outputs"
    /\ InitDeployed
    /\ function_name = Unset
    /\ max_attempts = MaxAttempts
    /\ pages = <<>>
    /\ InitLocals

InitDeploy ==
    /\ entry = "deploy"
    /\ pc = "create_lambda_package"
    /\ InitDeployed
    /\ function_name = Unset
    /\ max_attempts = DefaultMaxAttempts
    /\ pages = <<>>
    /\ InitLocals

\* wait_for_function_ready called with a budget of its caller's choice
InitWait ==
    /\ entry = "wait"
    /\ pc = "wait_for_function_ready"
    /\ InitDeployed
    /\ function_name = FunctionName
    /\ max_attempts \in 1..MaxBudget
    /\ pages = <<>>
    /\ InitLocals

\* the loop of empty_s3_buckets on one bucket that exists
InitEmpty ==
    /\ entry = "empty"
    /\ pc = "paginate"
    /\ pages \in PageLists
    /\ stack = "NONE"
    /\ outputs = {}
    /\ exists = {DataBucket}
    /\ nonempty = IF \E i \in DOMAIN pages : pages[i] # {} THEN {DataBucket} ELSE {}
    /\ versions = {}
    /\ config = DefaultConfig
    /\ function_name = Unset
    /\ max_attempts = DefaultMaxAttempts
    /\ InitLocals

Init == InitCleanup \/ InitTests \/ InitDeploy \/ InitWait \/ InitEmpty

Next == CleanupNext \/ TestsNext \/ DeployNext \/ EmptyNext

Spec == Init /\ [][Next]_vars

\* one entry point at a time
SpecCleanup == InitCleanup /\ [][CleanupNext]_vars
SpecTests == InitTests /\ [][TestsNext]_vars
SpecDeploy == (InitDeploy \/ InitWait) /\ [][DeployNext]_vars
SpecPoll == (InitTests \/ InitDeploy \/ InitWait) /\ [][TestsNext \/ DeployNext]_vars

SpecEmpty == InitEmpty /\ [][EmptyNext]_vars

\* the three entry points with the user's interrupt
SpecInterrupt ==
    (InitCleanup \/ InitTests \/ InitDeploy)
        /\ [][CleanupNext \/ TestsNext \/ DeployNext \/ Interrupt]_vars

\* run_cleanup is sequential code and each of its calls returns (cdk destroy
\* has a timeout, the waiter a budget): a stage that can run does run
FairCleanup == SpecCleanup /\ WF_vars(CleanupNext)

(***************************************************************************)
(* Properties of the cleanup run                                           *)
(***************************************************************************)
FallbackOps ==
    {"delete_function", "delete_crawler", "delete_database", "delete_bucket",
     "delete_cloudformation_stack"}

\* the fallback steps and the forced stack deletion, in declared order
FallbackChain ==
    <<Call("delete_function", FunctionName),
      Call("delete_crawler", CrawlerName),
      Call("delete_database", DatabaseName),
      Call("delete_bucket", DataBucket),
      Call("delete_bucket", ResultsBucket),
      Stage("delete_cloudformation_stack")>>

IsFallbackStep(c) == c[1] \in FallbackOps

FallbackOver == entry = "cleanup" /\ pc \in {"verify_cleanup", "done"}

Occurs(c) == \E i \in DOMAIN calls : calls[i] = c

\* C1: when cdk destroy was run and failed, the calls of the fallback steps
\* and of the forced stack deletion made by the run are exactly the declared
\* chain: each step once, in order.
C1_FallbackEveryStepOnce ==
    (FallbackOver /\ cdk_success = False)
        => SelectSeq(calls, IsFallbackStep) = FallbackChain

\* C2: a run that executed manual_resource_cleanup has executed
\* delete_cloudformation_stack after it by the time it verifies.
C2_ForcedDeletionAfterFallback ==
    (FallbackOver /\ Occurs(Stage("manual_resource_cleanup")))
        => \E i, j \in DOMAIN calls :
              /\ i < j
              /\ calls[i] = Stage("manual_resource_cleanup")
              /\ calls[j] = Stage("delete_cloudformation_stack")

\* C3: once cdk destroy has succeeded, the run has made and makes no
\* fallback step and no forced stack deletion.
C3_NoFallbackAfterPrimarySuccess ==
    (entry = "cleanup" /\ cdk_success = True)
        => /\ pc \notin {"manual_resource_cleanup", "delete_cloudformation_stack"}
           /\ \A i \in DOMAIN calls :
                 /\ ~IsFallbackStep(calls[i])
                 /\ calls[i] # Stage("manual_resource_cleanup")
                 /\ calls[i][1] # "delete_stack"

C3_Witness ==
    /\ entry = "cleanup" /\ pc = "done" /\ cdk_success = True
    /\ Occurs(Call("cdk_destroy", StackName))

StageOrder ==
    <<"get_stack_resources", "clean_athena_workgroup", "empty_s3_buckets",
      "run_cdk_destroy", "manual_resource_cleanup",
      "delete_cloudformation_stack", "verify_cleanup">>

Rank(name) == CHOOSE i \in DOMAIN StageOrder : StageOrder[i] = name

IsStage(c) == c[2] = "stage"

\* the stage a remote call belongs to
StageOfCall(op) ==
    CASE op = "delete_work_group" -> "clean_athena_workgroup"
      [] op = "delete_objects" -> "empty_s3_buckets"
      [] op = "cdk_destroy" -> "run_cdk_destroy"
      [] op = "delete_stack" -> "delete_cloudformation_stack"
      [] OTHER -> "manual_resource_cleanup"

\* the stage of entry i of the log: the entry itself, or the stage entered
\* last before it
StageAt(i) ==
    IF IsStage(calls[i]) THEN calls[i][1]
    ELSE LET before == {k \in 1..i : IsStage(calls[k])}
         IN  IF before = {} THEN "none"
             ELSE calls[CHOOSE k \in before : \A m \in before : m <= k][1]

\* C10: the stages are entered in declared order, each at most once, every
\* remote call is made inside its stage, the first three stages and the
\* verification are never skipped, and the emptying of the buckets is over
\* before cdk destroy, delete_stack or delete_bucket is called.
C10_StagesInDeclaredOrder ==
    entry = "cleanup" =>
        /\ \A i, j \in DOMAIN calls :
              (i < j /\ IsStage(calls[i]) /\ IsStage(calls[j]))
                  => Rank(calls[i][1]) < Rank(calls[j][1])
        /\ \A i \in DOMAIN calls :
              ~IsStage(calls[i]) => StageAt(i) = StageOfCall(calls[i][1])
        /\ \A j \in DOMAIN calls :
              calls[j][1] \in {"cdk_destroy", "delete_stack", "delete_bucket"}
                  => /\ \E i \in 1..j : calls[i] = Stage("empty_s3_buckets")
                     /\ \A k \in j..Len(calls) :
                           /\ calls[k][1] # "delete_objects"
                           /\ calls[k] # Stage("empty_s3_buckets")
        /\ pc = "done" =>
              /\ SubSeq(SelectSeq(calls, IsStage), 1, 3) =
                    <<Stage("get_stack_resources"), Stage("clean_athena_workgroup"),
                      Stage("empty_s3_buckets")>>
              /\ calls[Len(calls)] = Stage("verify_cleanup")

C10_Witness ==
    /\ entry = "cleanup" /\ pc = "done"
    /\ Occurs(Call("delete_objects", DataBucket))
    /\ Occurs(Call("cdk_destroy", StackName))
    /\ Occurs(Call("delete_bucket", DataBucket))
    /\ Occurs(Call("delete_stack", StackName))

(***************************************************************************)
(* Properties of the polling loops                                         *)
(***************************************************************************)
Waiting == entry \in {"deploy", "wait"}

\* C4: when the status just fetched is the success status, the loop has
\* ended with the result Succeeded (no further fetch of that operation is
\* possible), and the k-th fetch was preceded by k - 1 sleeps and followed
\* by none.
C4_SuccessReturnsImmediately ==
    /\ (Waiting /\ status = "Active")
          => /\ pc # "wait_for_function_ready"
             /\ wait_result = "Succeeded"
             /\ fetches <= max_attempts
             /\ sleeps = fetches - 1
    /\ (entry = "tests" /\ status = "SUCCEEDED")
          => /\ pc # "poll_query"
             /\ poll_result[qi] = "Succeeded"
             /\ fetches <= MaxAttempts
             /\ sleeps = fetches - 1

C4_Witness ==
    /\ entry = "tests" /\ pc = "end_query"
    /\ status = "SUCCEEDED" /\ fetches = MaxAttempts

\* C5: when the status just fetched is a terminal failure, the loop has
\* ended with a failure result, whatever is left of the budget.
C5_TerminalFailureStops ==
    /\ (Waiting /\ status \in {"Inactive", "Failed"})
          => /\ pc # "wait_for_function_ready"
             /\ wait_result = "FailedTerminal"
             /\ entry = "deploy" => (pc = "done" /\ exit_code = 1)
    /\ (entry = "tests" /\ status \in {"FAILED", "CANCELLED"})
          => /\ pc # "poll_query"
             /\ poll_result[qi] = "FailedTerminal"
             /\ all_queries_passed = FALSE

C5_Witness ==
    /\ entry = "tests" /\ pc = "end_query"
    /\ status = "CANCELLED" /\ fetches = 1 /\ qi = 1

\* C6: one operation is fetched at most max_attempts times; a loop that
\* used up its budget ends as a timeout, after exactly max_attempts (30 in
\* both mains) fetches, and the timeout is a failure.
C6_TimeoutAfterMaxAttempts ==
    /\ Waiting =>
          /\ fetches <= max_attempts
          /\ entry = "deploy" => max_attempts = 30
          /\ (pc # "wait_for_function_ready" /\ attempt = max_attempts)
                => wait_result = "TimedOut"
          /\ wait_result = "TimedOut"
                => /\ fetches = max_attempts
                   /\ pc = "done"
                   /\ entry = "deploy" => exit_code = 1
    /\ entry = "tests" =>
          /\ fetches <= MaxAttempts
          /\ MaxAttempts = 30
          /\ (pc = "end_query" /\ attempt = MaxAttempts)
                => poll_result[qi] = "TimedOut"
          /\ (pc = "end_query" /\ poll_result[qi] = "TimedOut")
                => fetches = MaxAttempts
          /\ \A i \in 1..NumQueries :
                poll_result[i] = "TimedOut"
                    => /\ all_queries_passed = FALSE
                       /\ athena_success # True

C6_Witness ==
    /\ entry = "tests" /\ pc = "end_query"
    /\ poll_result[qi] = "TimedOut" /\ fetches = MaxAttempts

\* C7: a fetched status that is none of the recognized ones ends the loop
\* with a terminal failure.
C7_UnrecognizedIsTerminal ==
    /\ (Waiting /\ status \notin {"none", "Pending", "Active"})
          => /\ pc # "wait_for_function_ready"
             /\ wait_result = "FailedTerminal"
    /\ (entry = "tests" /\ status \notin {"none"} \cup QueryStatuses)
          => /\ pc # "poll_query"
             /\ poll_result[qi] = "FailedTerminal"

AfterCrawlerStage ==
    {"check_glue_tables", "get_table_name", "submit_query", "poll_query",
     "end_query", "show_query_result_files", "summary"}

\* C8: when the catalog check is reached after the crawler was started or
\* found RUNNING, the crawler state has been fetched again until it was not
\* RUNNING, or as often as the budget allows.
C8_CrawlerPolledBeforeCatalog ==
    (entry = "tests" /\ pc \in AfterCrawlerStage /\ crawler_success = True)
        => \/ /\ Len(crawler_seen) >= 2
              /\ crawler_seen[Len(crawler_seen)] # "RUNNING"
           \/ Len(crawler_seen) > MaxAttempts

SecondPollSucceeds ==
    /\ entry = "wait" /\ max_attempts = 3
    /\ wait_result = "Succeeded" /\ fetches = 2

WaitFailed == wait_result \in {"Error", "FailedTerminal", "TimedOut"}

\* C11: in the deploy run every step is blocking.  The code is updated only
\* after the function name resolved, the state is fetched only after the
\* update, the smoke test is reached and invokes only after the state was
\* seen Active; a run whose step failed ends with exit code 1 and without
\* any later step, and exit code 0 means that all five steps succeeded.
C11_DeployStepsBlocking ==
    entry = "deploy" =>
        /\ update_calls <= 1 /\ invoke_calls <= 1 /\ describe_calls <= 2
        /\ update_calls = 1 => (function_name = FunctionName /\ describe_calls >= 1)
        /\ fetches > 0 => update_calls = 1
        /\ (pc = "test_updated_function" \/ describe_calls = 2 \/ invoke_calls = 1)
              => (wait_result = "Succeeded" /\ status = "Active")
        /\ pc = "done" =>
              /\ exit_code \in {0, 1}
              /\ zip_path = Unset
              /\ function_name = Unset
                    => (exit_code = 1 /\ update_calls = 0 /\ fetches = 0
                        /\ invoke_calls = 0 /\ describe_calls <= 1)
              /\ (update_calls = 1 /\ fetches = 0)
                    => (exit_code = 1 /\ invoke_calls = 0 /\ describe_calls = 1)
              /\ fetches > 0 => (wait_result = "Succeeded" \/ WaitFailed)
              /\ WaitFailed
                    => (exit_code = 1 /\ invoke_calls = 0 /\ describe_calls = 1)
              /\ exit_code = 0
                    => (function_name = FunctionName /\ update_calls = 1
                        /\ wait_result = "Succeeded" /\ invoke_calls = 1)
        /\ pc # "done" => exit_code = -1

C11_Witness ==
    /\ entry = "deploy" /\ pc = "done" /\ exit_code = 1
    /\ update_calls = 1 /\ wait_result = "FailedTerminal" /\ invoke_calls = 0

(***************************************************************************)
(* Properties of advisory stages and of the verification                   *)
(***************************************************************************)
Flags == <<lambda_success, s3_success, crawler_success, tables_success,
           athena_success>>

\* C12: a cleanup run ends only after the verification, and has then run
\* the workgroup stage, the emptying, and cdk destroy or the fallback,
\* whatever the workgroup stage and the emptying returned; a test run that
\* invoked the function ends only after its summary, with the storage check,
\* the crawler stage and the catalog check run whatever the stages before
\* them returned, and the summary counts exactly the stages that passed.
C12_AdvisoryFailuresDoNotStop ==
    /\ (entry = "cleanup" /\ pc = "done") =>
          /\ athena_success \in {True, False}
          /\ s3_success = True
          /\ Occurs(Stage("run_cdk_destroy")) \/ Occurs(Stage("manual_resource_cleanup"))
          /\ calls[Len(calls)] = Stage("verify_cleanup")
          /\ exit_code \in {0, 1}
    /\ (entry = "tests" /\ lambda_success # Unset) =>
          /\ pc \notin {"get_stack_outputs", "test_lambda_function"}
          /\ pc # "check_s3_data" => s3_success \in {True, False}
          /\ pc \notin {"check_s3_data", "test_glue_crawler"}
                => crawler_success \in {True, False}
          /\ pc \notin {"check_s3_data", "test_glue_crawler", "check_glue_tables"}
                => tables_success \in {True, False}
          /\ pc = "done" =>
                /\ \A i \in DOMAIN Flags : Flags[i] \in {True, False}
                /\ passed_tests =
                      Cardinality({i \in DOMAIN Flags : Flags[i] = True})

C12_Witness ==
    /\ entry = "tests" /\ pc = "done"
    /\ lambda_success = False /\ s3_success = False /\ crawler_success = False
    /\ tables_success = True /\ athena_success = True /\ passed_tests = 2

CleanupDone == entry = "cleanup" /\ pc = "done"

\* C13: a verification appends one boolean for each of its categories,
\* whichever of them fail or raise, and the verdict (exit code 0) is true
\* exactly when every boolean is true.
C13_EveryCategoryEvaluated ==
    entry = "cleanup" =>
        /\ pc # "done" => verification_results = <<>>
        /\ pc = "done" =>
              /\ Len(verification_results) = Cardinality(VerifyCategories)
              /\ exit_code = 0 <=> \A i \in DOMAIN verification_results :
                                        verification_results[i]
              /\ exit_code = 1 <=> \E i \in DOMAIN verification_results :
                                        ~verification_results[i]

C13_Witness ==
    /\ CleanupDone /\ exit_code = 1
    /\ "verify_cleanup" \in errors
    /\ ~verification_results[1] /\ ~verification_results[2]
    /\ verification_results[5]

\* C14: a true verdict is returned only when no managed resource (stack,
\* buckets, function, crawler, database, workgroup) exists; stated for the
\* verifications none of whose queries fails.
C14_TrueVerdictMeansAllAbsent ==
    (CleanupDone /\ exit_code = 0 /\ "verify_cleanup" \notin errors)
        => (stack = "NONE" /\ exists = {})

\* C15: when there is no stack, the stack category passes and the other
\* four categories are still evaluated; the run gets its verdict.
C15_AbsentStackPasses ==
    (CleanupDone /\ stack = "NONE")
        => /\ Len(verification_results) = Cardinality(VerifyCategories)
           /\ verification_results[1]
           /\ exit_code \in {0, 1}
           /\ exit_code = 1 <=> \E i \in 2..5 : ~verification_results[i]

C15_Witness ==
    /\ CleanupDone /\ stack = "NONE" /\ ~Occurs(Call("cdk_destroy", StackName))
    /\ verification_results[1] /\ ~verification_results[2] /\ exit_code = 1

\* C16: when the stack is present in a status other than DELETE_COMPLETE,
\* the stack category fails and the verdict is false.
C16_PresentStackFails ==
    (CleanupDone /\ stack \notin {"NONE", "DELETE_COMPLETE"})
        => (~verification_results[1] /\ exit_code = 1)

\* C17: the step of verify_cleanup leaves the remote state and the config
\* as they are, and adds nothing but its own stage to the log of mutating
\* calls.
C17_VerifyReadOnly ==
    [][(entry = "cleanup" /\ pc = "verify_cleanup")
          => /\ UNCHANGED <<remoteVars, config>>
             /\ calls' = Append(calls, Stage("verify_cleanup"))]_vars

C17_Witness ==
    /\ CleanupDone /\ exit_code = 1
    /\ Buckets \subseteq exists /\ stack = "DELETE_FAILED"

VerifyRuns ==
    Cardinality({i \in DOMAIN calls : calls[i] = Stage("verify_cleanup")})

VerifyRunsLast ==
    entry = "cleanup" =>
        /\ VerifyRuns <= 1
        /\ VerifyRuns = 1 <=> pc = "done"
        /\ pc = "done" =>
              /\ calls[Len(calls)] = Stage("verify_cleanup")
              /\ exit_code = IF \A i \in DOMAIN verification_results :
                                    verification_results[i]
                             THEN 0 ELSE 1
        /\ pc # "done" => exit_code = -1

\* C18: every cleanup run reaches its end, and a run that ended has run
\* verify_cleanup exactly once, as the last entry of its log (no mutating
\* call after it), with the exit code 0 if every category passed and 1 if
\* not; before the end there is no exit code.
C18_VerifyExactlyOnceAtEnd ==
    /\ []VerifyRunsLast
    /\ <>(entry = "cleanup" => pc = "done")

C18_Witness ==
    /\ CleanupDone /\ VerifyRuns = 1 /\ exit_code = 1
    /\ Occurs(Call("delete_stack", StackName))
    /\ athena_success = False

Provisioned ==
    /\ stack = "CREATE_COMPLETE" /\ outputs = AllOutputs
    /\ exists = Resources

\* C19: a cleanup run that starts with everything provisioned and in which
\* no remote call fails ends with every category passed because nothing is
\* left, and with exit code 0.
C19_FullCleanupVerifiesAbsent ==
    Provisioned =>
        []((CleanupDone /\ errors = {})
              => /\ Len(verification_results) = Cardinality(VerifyCategories)
                 /\ \A i \in DOMAIN verification_results : verification_results[i]
                 /\ stack = "NONE" /\ exists = {}
                 /\ exit_code = 0)

C19_Witness ==
    /\ CleanupDone /\ errors = {} /\ exit_code = 0
    /\ Occurs(Call("delete_work_group", WorkgroupName))
    /\ Occurs(Call("delete_objects", DataBucket))
    /\ Occurs(Call("delete_objects", ResultsBucket))
    /\ Occurs(Call("cdk_destroy", StackName))

Clean == stack = "NONE" /\ outputs = {} /\ exists = {} /\ nonempty = {}

\* C20: a cleanup run on an environment without any managed resource leaves
\* the environment as it is (so a second run starts where the first did),
\* issues no delete_objects, no cdk destroy and no delete_stack, reports
\* every stage as passed unless a remote call fails, and ends with exit code
\* 0 unless a query of the verification fails.
C20_CleanRunIsNoOp ==
    Clean =>
        [](/\ Clean
           /\ \A i \in DOMAIN calls :
                 calls[i][1] \notin {"delete_objects", "cdk_destroy", "delete_stack",
                                     "delete_work_group"}
           /\ errors = {} => (athena_success # False /\ s3_success # False)
           /\ (CleanupDone /\ "verify_cleanup" \notin errors)
                 => (exit_code = 0
                     /\ \A i \in DOMAIN verification_results : verification_results[i]))

C20_Witness ==
    /\ CleanupDone /\ Clean /\ errors = {} /\ exit_code = 0
    /\ stack_exists = False
    /\ Occurs(Call("delete_function", FunctionName))

(***************************************************************************)
(* Outcomes and exit codes                                                 *)
(***************************************************************************)
\* C21: a stage whose delete or empty operation failed on an existing
\* target hands False to the runner, and a stage that hands True leaves its
\* target absent.
C21_StageOutcomeTellsFailure ==
    entry = "cleanup" =>
        /\ "empty_s3_buckets" \in errors => s3_success = False
        /\ athena_success = True => WorkgroupName \notin exists

EntryPoints == {"cleanup", "tests", "deploy"}

\* C22: an entry point that ended has exit code 0 exactly when the run
\* fully succeeded: all deploy steps, all five tests, a true verdict.
C22_ExitZeroIffFullSuccess ==
    (entry \in EntryPoints /\ pc = "done") =>
        /\ entry = "deploy" =>
              /\ exit_code = 0 => (wait_result = "Succeeded" /\ invoke_calls = 1)
              /\ (function_name = Unset \/ WaitFailed \/ invoke_calls = 0)
                    => exit_code = 1
        /\ entry = "tests" =>
              (exit_code = 0 <=> passed_tests = 5)
        /\ entry = "cleanup" =>
              (exit_code = 0 <=> \A i \in DOMAIN verification_results :
                                    verification_results[i])

(***************************************************************************)
(* Properties of the queries                                               *)
(***************************************************************************)
AthenaOver ==
    /\ entry = "tests" /\ qi > 0
    /\ pc \in {"show_query_result_files", "summary", "done"}

IndexOf(q) == CHOOSE i \in 1..NumQueries : Queries[i] = q

HasRecord(i) ==
    \E k \in DOMAIN query_executions : query_executions[k].query_info = Queries[i]

PollEnded(i) ==
    poll_result[i] \in {"Succeeded", "FailedTerminal", "TimedOut", "Error"}

\* C23: when test_athena_query has returned, every query of the list was
\* submitted, in order, and every query that got an execution id was polled
\* to an end, whatever happened to the queries before it; a query that did
\* not succeed leaves the aggregate flag false.
C23_QueriesIndependent ==
    /\ AthenaOver =>
          /\ qi = NumQueries
          /\ submitted = Queries
          /\ \A i \in 1..NumQueries : HasRecord(i) <=> PollEnded(i)
    /\ entry = "tests" =>
          \A i \in 1..NumQueries :
              (poll_result[i] \in {"FailedTerminal", "TimedOut", "Error"}
               \/ (i <= Len(submitted) /\ ~HasRecord(i)))
                  => all_queries_passed = FALSE

C23_Witness ==
    /\ AthenaOver /\ Len(query_executions) = 2
    /\ poll_result = <<"FailedTerminal", "none", "Succeeded">>

\* C24: test_athena_query returns one record per query that got an
\* execution id, in the order of the queries and with ids of their own, and
\* the aggregate flag is true exactly when every query reached SUCCEEDED.
C24_RecordsAndAggregateFlag ==
    AthenaOver =>
        /\ \A k, l \in DOMAIN query_executions :
              k < l => /\ query_executions[k].execution_id
                            # query_executions[l].execution_id
                       /\ IndexOf(query_executions[k].query_info)
                            < IndexOf(query_executions[l].query_info)
        /\ \A i \in 1..NumQueries : HasRecord(i) <=> poll_result[i] # "none"
        /\ all_queries_passed <=> \A i \in 1..NumQueries : poll_result[i] = "Succeeded"
        /\ (\A i \in 1..NumQueries : poll_result[i] = "Succeeded")
              => Len(query_executions) = 3

\* C25: the step that fetches the status SUCCEEDED, and reads and prints
\* the result rows, leaves the aggregate flag as it was.
C25_ResultsArePresentationOnly ==
    [][(entry = "tests" /\ pc = "poll_query" /\ status' = "SUCCEEDED")
          => all_queries_passed' = all_queries_passed]_vars

\* C26: the queries are submitted in declared order, one at a time: a query
\* is submitted only when the polling of every query before it has ended
\* and no status fetch is under way, no query after the current one has
\* been submitted or polled, and the records are in declared order.
C26_SubmitThenPollInOrder ==
    entry = "tests" =>
        /\ Len(submitted) <= NumQueries
        /\ submitted = SubSeq(Queries, 1, Len(submitted))
        /\ pc \in {"poll_query", "end_query"} => Len(submitted) = qi
        /\ pc = "submit_query" =>
              /\ Len(submitted) = qi - 1
              /\ fetches = 0
        /\ \A i \in 1..NumQueries :
              /\ (i < qi \/ (i = qi /\ pc # "poll_query"))
                    => (HasRecord(i) => PollEnded(i))
              /\ i > Len(submitted) => (poll_result[i] = "none" /\ ~HasRecord(i))
        /\ pc = "poll_query" =>
              query_executions[Len(query_executions)].query_info = Queries[qi]
        /\ \A k, l \in DOMAIN query_executions :
              k < l => IndexOf(query_executions[k].query_info)
                          < IndexOf(query_executions[l].query_info)

C26_Witness ==
    /\ entry = "tests" /\ pc = "poll_query" /\ qi = 3 /\ fetches = 2
    /\ Len(query_executions) = 3
    /\ poll_result = <<"TimedOut", "Succeeded", "none">>

(***************************************************************************)
(* Retries, the listing loop, the interrupt, the resolution                *)
(***************************************************************************)
OneShotOps ==
    {"delete_work_group", "delete_function", "delete_crawler", "delete_database",
     "delete_bucket", "delete_stack"}

\* C27: a cleanup run issues no one-shot call (delete_work_group,
\* delete_function, delete_crawler, delete_database, delete_bucket of one
\* bucket, delete_stack) twice, and a deploy run issues update_function_code
\* at most once.
C27_NoRetryOfOneShotActions ==
    /\ entry = "cleanup" =>
          \A i, j \in DOMAIN calls :
              (i < j /\ calls[i][1] \in OneShotOps) => calls[i] # calls[j]
    /\ entry = "deploy" => update_calls <= 1

C27_Witness ==
    /\ CleanupDone
    /\ Occurs(Call("delete_function", FunctionName))
    /\ Occurs(Call("delete_bucket", DataBucket))
    /\ Occurs(Call("delete_stack", StackName))
    /\ exists = {FunctionName, DataBucket}

AllKeys == UNION {pages[i] : i \in DOMAIN pages}

HasKeys(objects) == objects # {}

\* C28: when the loop over a bucket's listing ends with its report, the
\* delete_objects calls were one per page that has keys, in page order, with
\* that page's keys: together all the listed keys, each key in one call, and
\* the reported count is the number of listed keys.
C28_EveryListedKeyDeleted ==
    (entry = "empty" /\ reported # -1) =>
        /\ batches = SelectSeq(pages, HasKeys)
        /\ UNION {batches[i] : i \in DOMAIN batches} = AllKeys
        /\ \A i, j \in DOMAIN batches : i # j => batches[i] \cap batches[j] = {}
        /\ reported = Cardinality(AllKeys)

C28_Witness ==
    /\ entry = "empty" /\ pc = "done"
    /\ Len(pages) = 3 /\ Len(batches) = 2
    /\ reported = 3

Issued ==
    <<calls, fetches, update_calls, invoke_calls, describe_calls, start_calls,
      crawler_seen, submitted, query_executions>>

\* C29: at every point of a run that has not ended the interrupt can be
\* taken; the step that takes it issues no remote call and leaves the remote
\* state as it is, and no step follows it.
C29_InterruptStopsRun ==
    /\ []((entry \in EntryPoints /\ pc \notin {"done", "interrupted"})
            => ENABLED Interrupt)
    /\ [][/\ pc' = "interrupted" => UNCHANGED <<remoteVars, Issued>>
          /\ pc = "interrupted" => UNCHANGED vars]_vars

C29_Witness ==
    /\ entry = "tests" /\ pc = "interrupted"
    /\ qi = 2 /\ fetches = 2 /\ sleeps = 2 /\ status = "RUNNING"

\* C30: the resolution never ends a run: after it the test run has its
\* three required names and goes through its stages, the deploy run has the
\* function name, and the cleanup run has its configured names.
C30_ResolutionNeverAborts ==
    /\ (entry = "tests" /\ pc # "get_stack_outputs")
          => /\ RequiredKeys \subseteq DOMAIN config
             /\ pc = "done" => lambda_success # Unset
    /\ (entry = "deploy" /\ describe_calls >= 1)
          => function_name = FunctionName
    /\ (entry = "cleanup" /\ pc # "get_stack_resources")
          => DOMAIN DefaultConfig \subseteq DOMAIN config

(***************************************************************************)
(* The resolved names                                                      *)
(***************************************************************************)
Roles ==
    {"data_bucket", "results_bucket", "lambda_function_name", "crawler_name",
     "database_name", "workgroup_name", "stack_name"}

\* C31: once the resolution is over, the config of a cleanup run has a
\* non-empty name for every role, and a fallback stage that ran has called
\* delete_bucket for both buckets: no role is skipped for want of a name.
C31_EveryRoleResolved ==
    (entry = "cleanup" /\ pc # "get_stack_resources") =>
        /\ Roles \subseteq DOMAIN config
        /\ \A k \in DOMAIN config : config[k] # ""
        /\ Occurs(Stage("manual_resource_cleanup")) =>
              \A b \in Buckets : Occurs(Call("delete_bucket", b))

FixedRoles == {"stack_name", "workgroup_name", "database_name", "crawler_name"}

RecordRoles == {"data_bucket", "results_bucket", "lambda_function_name"}

Written(k) == k \notin DOMAIN config \/ config'[k] # config[k]

\* C32: in a cleanup run only get_stack_resources writes the config: it
\* removes no entry, leaves the stack, workgroup, database and crawler names
\* as they are, and what it sets is the data bucket, the results bucket or
\* the function name, with the record's value; every later stage, failing
\* or not, leaves the config as it is.
C32_ConfigWrittenOnlyByResolution ==
    [][entry = "cleanup" =>
          /\ pc # "get_stack_resources" => config' = config
          /\ DOMAIN config \subseteq DOMAIN config'
          /\ \A k \in FixedRoles : config'[k] = config[k]
          /\ \A k \in DOMAIN config' :
                Written(k) =>
                    /\ k \in RecordRoles
                    /\ config'[k] \in {StackOutputs[o] : o \in outputs}]_vars

C32_Witness ==
    /\ CleanupDone
    /\ {"data_bucket", "results_bucket"} \subseteq DOMAIN config
    /\ config.data_bucket = DataBucket /\ config.results_bucket = ResultsBucket
    /\ {"clean_athena_workgroup", "run_cdk_destroy", "manual_resource_cleanup"}
          \subseteq errors

\* reads of the stack record made to resolve a resource name
ResolutionReads ==
    IF entry = "cleanup"
    THEN Cardinality({i \in DOMAIN calls : calls[i] = Stage("get_stack_resources")})
    ELSE describe_calls

\* C33: one invocation reads the stack record for the names of its
\* resources once: never a second time, and once when its resolution step
\* is over.
C33_RecordReadOnce ==
    entry \in EntryPoints =>
        /\ ResolutionReads <= 1
        /\ (entry = "cleanup" /\ pc # "get_stack_resources") => ResolutionReads = 1
        /\ (entry = "tests" /\ pc # "get_stack_outputs") => ResolutionReads = 1
        /\ (entry = "deploy" /\ function_name # Unset) => ResolutionReads >= 1

(***************************************************************************)
(* Properties of the test run's stages                                     *)
(***************************************************************************)
\* C34: the queries of a test run are submitted only when check_glue_tables
\* found a table; when it found none or raised, no query is submitted, no
\* status is fetched, the Athena test is recorded as failed, and the run
\* ends with fewer passed tests than the five there are.
C34_QueriesGatedOnCatalog ==
    entry = "tests" =>
        /\ (submitted # <<>> \/ qi > 0 \/ fetches > 0) => tables_success = True
        /\ tables_success = False =>
              /\ submitted = <<>> /\ query_executions = <<>> /\ fetches = 0
              /\ pc \in {"summary", "done"}
              /\ athena_success = False
              /\ pc = "done" => passed_tests < 5

C34_Witness ==
    /\ entry = "tests" /\ pc = "done"
    /\ tables_success = False /\ athena_success = False
    /\ lambda_success = True /\ s3_success = True /\ crawler_success = True
    /\ passed_tests = 3 /\ submitted = <<>>

\* C35: one call of test_glue_crawler fetches the state once at most and
\* issues start_crawler once at most: it starts the crawler exactly when the
\* state is READY, succeeds without a start when the state is RUNNING, and
\* fails without a start for any other state and when the fetch raises.
C35_StartOnlyWhenReady ==
    (entry = "tests" /\ crawler_success # Unset) =>
        /\ start_calls <= 1 /\ Len(crawler_seen) <= 1
        /\ start_calls = 1 <=> crawler_seen = <<"READY">>
        /\ crawler_seen = <<"RUNNING">> => crawler_success = True
        /\ (crawler_seen = <<>> \/ crawler_seen[1] \notin {"READY", "RUNNING"})
              => crawler_success = False

C35_Witness ==
    /\ entry = "tests" /\ pc = "check_glue_tables"
    /\ crawler_seen = <<"RUNNING">> /\ start_calls = 0
    /\ crawler_success = True /\ crawler_wait = CrawlerWaitSeconds

FetchFailed(i) == poll_result[i] = "Error"

\* C36: a status fetch that raises is not retried.  wait_for_function_ready
\* returns failure at that attempt: the wait is over, no fetch follows, and
\* the deploy run ends with exit code 1 and without its smoke test.  In
\* test_athena_query the query's polling ends with that fetch: the aggregate
\* flag is false, the query is not polled again, its record stays in the
\* list, and the loop goes on to the next query.
C36_FetchErrorNotRetried ==
    /\ [](/\ wait_result = "Error" =>
                /\ pc = "done"
                /\ entry = "deploy" => (exit_code = 1 /\ invoke_calls = 0)
          /\ \A i \in 1..NumQueries :
                FetchFailed(i) =>
                    /\ HasRecord(i) /\ ~all_queries_passed
                    /\ qi = i => pc # "poll_query"
                    /\ (qi > i /\ pc # "submit_query") => Len(submitted) > i
                    /\ AthenaOver => submitted = Queries)
    /\ [][/\ wait_result = "Error" => fetches' = fetches
          /\ (wait_result' = "Error" /\ wait_result # "Error")
                => (fetches' = fetches + 1 /\ attempt' = attempt)
          /\ \A i \in 1..NumQueries :
                FetchFailed(i) =>
                    /\ FetchFailed(i)' /\ HasRecord(i)'
                    /\ qi' = i => fetches' = fetches
                    /\ (qi = i /\ i < NumQueries /\ pc = "end_query")
                          => (pc' = "submit_query" /\ qi' = i + 1)]_vars

C36_Witness ==
    /\ entry = "tests" /\ pc = "poll_query" /\ qi = 3 /\ fetches = 1
    /\ poll_result = <<"Error", "Succeeded", "none">>
    /\ Len(query_executions) = 3 /\ ~all_queries_passed

(***************************************************************************)
(* Emptied buckets                                                         *)
(***************************************************************************)
EmptiedWithoutError(b) ==
    /\ entry = "cleanup" /\ b \in exists
    /\ Occurs(Call("delete_objects", b))
    /\ "empty_s3_buckets" \notin errors

\* C37: a bucket that empty_s3_buckets emptied, no call of the stage
\* failing, holds no objects, no object versions and no delete markers for
\* as long as it is there, so that a delete_bucket on it can succeed.
C37_EmptiedBucketCanBeDeleted ==
    \A b \in Buckets :
        EmptiedWithoutError(b) =>
            /\ b \notin nonempty /\ b \notin versions
            /\ "ok" \in DeleteOutcomes(b, exists, nonempty \cup versions)
====
